---------------------------- MODULE Spec2Model ----------------------------
(***************************************************************************)
(* Squeak (src/squeak/main.py): trajectory normalisation and the geometric *)
(* deviation measures, modelled as pure functions applied to bounded       *)
(* inputs.                                                                 *)
(*                                                                         *)
(* Every specification below has the same shape: Init draws the arguments  *)
(* of one call from bounded sets (pc = "call"), and one action per         *)
(* function applies it and stores the outcome in res (pc = "done").        *)
(* An outcome is [st |-> "ok", val |-> v] or [st |-> "error", ...].        *)
(*                                                                         *)
(* Python sequences are 0-based, TLA+ sequences 1-based: a[0] is a[1],     *)
(* a[-1] is a[Len(a)], and an index the code returns is reported 0-based.  *)
(***************************************************************************)
EXTENDS Integers, Sequences, FiniteSets, TLC

VARIABLES pc, args, res

vars == <<pc, args, res>>

\* ------------------------------------------------------------------------
\* Bounds of the model
\* ------------------------------------------------------------------------
MaxLen == 3

MaxY == 2

MaxCoord == 2

MaxTime == 5

MaxInterval == 3

MaxDuration == 5

MaxStamp == 17

MaxSteps == 7

\* ------------------------------------------------------------------------
\* Helpers
\* ------------------------------------------------------------------------
SeqsOf(S, lo, hi) == UNION {[1..n -> S] : n \in lo..hi}

Abs(a) == IF a < 0 THEN -a ELSE a

Sgn(a) == IF a < 0 THEN -1 ELSE IF a > 0 THEN 1 ELSE 0

Ok(v) == [st |-> "ok", val |-> v]

Err(k) == [st |-> "error", kind |-> k]

None == [st |-> "none"]

\* ------------------------------------------------------------------------
\* get_init_step / get_init_time
\* ------------------------------------------------------------------------
\* numpy.argmax of a boolean array: the (0-based) index of the first
\* occurrence of the maximum, FALSE < TRUE.
argmax(started) ==
    LET mx == \E i \in 1..Len(started) : started[i]
        first == CHOOSE i \in 1..Len(started) :
                    /\ started[i] = mx
                    /\ \A k \in 1..(i-1) : started[k] # mx
    IN  first - 1

get_init_step_gte(y, y_threshold, ascending) ==
    IF Len(y) = 0 THEN Err("ValueError")
    ELSE LET started == IF ascending
                        THEN [i \in 1..Len(y) |-> y[i] >= y_threshold]
                        ELSE [i \in 1..Len(y) |-> y[i] <= y_threshold]
         IN  Ok(argmax(started))

get_init_step(y, y_threshold, ascending) ==
    IF Len(y) = 0 THEN Err("ValueError")
    ELSE LET started == IF ascending
                        THEN [i \in 1..Len(y) |-> y[i] > y_threshold]
                        ELSE [i \in 1..Len(y) |-> y[i] < y_threshold]
         IN  Ok(argmax(started))

get_init_time(t, y, y_threshold, ascending) ==
    LET init_step == get_init_step(y, y_threshold, ascending)
    IN  IF init_step.st # "ok" THEN init_step
        ELSE Ok(t[init_step.val + 1])

\* The documented example, in units of 0.01:
\* get_init_step([0, 0, 0.02, 0.5], 0.01, True).
ExampleInitStep ==
    [y |-> <<0, 0, 2, 50>>, t |-> <<0, 10, 20, 30>>,
     y_threshold |-> 1, ascending |-> TRUE]

InitStepArgs ==
    {[y |-> y, t |-> [i \in 1..Len(y) |-> 10 * (i - 1)],
      y_threshold |-> th, ascending |-> asc] :
        y \in SeqsOf(0..MaxY, 0, MaxLen), th \in 0..MaxY, asc \in BOOLEAN}
    \cup {ExampleInitStep}

InitInitStep ==
    /\ pc = "call"
    /\ args \in InitStepArgs
    /\ res = None

CallGetInitStep ==
    /\ pc = "call"
    /\ res' = [fn |-> "get_init_step"] @@
              get_init_step(args.y, args.y_threshold, args.ascending)
    /\ pc' = "done"
    /\ UNCHANGED args

CallGetInitTime ==
    /\ pc = "call"
    /\ res' = [fn |-> "get_init_time"] @@
              get_init_time(args.t, args.y, args.y_threshold, args.ascending)
    /\ pc' = "done"
    /\ UNCHANGED args

NextInitStep == CallGetInitStep \/ CallGetInitTime

SpecInitStep == InitInitStep /\ [][NextInitStep]_vars

\* Crossed(a, i): element i (1-based) of the call's y is beyond the threshold.
Crossed(a, i) ==
    IF a.ascending THEN a.y[i] > a.y_threshold ELSE a.y[i] < a.y_threshold

\* C5: get_init_step returns the smallest index whose element is beyond the
\* threshold (above it when ascending, below it otherwise) and 0 when no
\* element is; the documented example returns 2.
C5_FirstCrossing ==
    (pc = "done" /\ res.fn = "get_init_step" /\ Len(args.y) > 0) =>
        /\ res.st = "ok"
        /\ (\E i \in 1..Len(args.y) : Crossed(args, i)) =>
              /\ Crossed(args, res.val + 1)
              /\ \A k \in 1..res.val : ~Crossed(args, k)
        /\ (\A i \in 1..Len(args.y) : ~Crossed(args, i)) => res.val = 0
        /\ (args = ExampleInitStep) => res.val = 2

C5_Witness ==
    /\ pc = "done"
    /\ res.fn = "get_init_step"
    /\ args = ExampleInitStep
    /\ res.val = 2

\* ------------------------------------------------------------------------
\* remap_right
\* ------------------------------------------------------------------------
remap_right_increasing(array) ==
    IF Len(array) = 0 THEN Err("IndexError")
    ELSE IF array[Len(array)] - array[1] > 0
         THEN LET array_start == array[1]
              IN  Ok([i \in 1..Len(array) |->
                        ((array[i] - array_start) * (-1)) + array_start])
         ELSE Ok(array)

remap_right(array) ==
    IF Len(array) = 0 THEN Err("IndexError")
    ELSE IF array[Len(array)] - array[1] < 0
         THEN LET array_start == array[1]
              IN  Ok([i \in 1..Len(array) |->
                        ((array[i] - array_start) * (-1)) + array_start])
         ELSE Ok(array)

InitRemap ==
    /\ pc = "call"
    /\ \E n \in 0..MaxLen : args \in [array : [1..n -> -MaxCoord..MaxCoord]]
    /\ res = None

CallRemapRight ==
    /\ pc = "call"
    /\ res' = [fn |-> "remap_right"] @@ remap_right(args.array)
    /\ pc' = "done"
    /\ UNCHANGED args

\* remap_right applied to the array the first call returned.
CallRemapRightAgain ==
    /\ pc = "done"
    /\ res.st = "ok"
    /\ res' = [fn |-> "remap_right", once |-> res.val] @@ remap_right(res.val)
    /\ pc' = "twice"
    /\ UNCHANGED args

NextRemap == CallRemapRight \/ CallRemapRightAgain

SpecRemap == InitRemap /\ [][NextRemap]_vars

\* C9: remap_right is idempotent on every non-empty sequence, and it returns
\* its argument unchanged when the last element is not below the first.
C9_RemapIdempotent ==
    /\ (pc = "twice") => (res.st = "ok" /\ res.val = res.once)
    /\ (pc = "done" /\ Len(args.array) > 0
          /\ args.array[Len(args.array)] >= args.array[1]) =>
            (res.st = "ok" /\ res.val = args.array)
    /\ (pc = "done" /\ Len(args.array) > 0) => res.st = "ok"

\* A decreasing sequence was flipped by the first call and left alone by the
\* second.
C9_Witness ==
    /\ pc = "twice"
    /\ args.array[Len(args.array)] < args.array[1]
    /\ res.once # args.array
    /\ res.val = res.once

\* ------------------------------------------------------------------------
\* Exact rational arithmetic for the values numpy computes in floating
\* point: a number is [n |-> numerator, d |-> denominator], d > 0, in lowest
\* terms. [n |-> 0, d |-> 0] stands for NaN (0/0).
\* ------------------------------------------------------------------------
RECURSIVE GCD(_, _)
GCD(a, b) == IF b = 0 THEN a ELSE GCD(b, a % b)

NaN == [n |-> 0, d |-> 0]

Rat(n, d) ==
    IF d = 0 THEN NaN
    ELSE LET g == GCD(Abs(n), Abs(d))
         IN  [n |-> (Sgn(d) * n) \div g, d |-> Abs(d) \div g]

R(i) == [n |-> i, d |-> 1]

RSeq(s) == [i \in 1..Len(s) |-> R(s[i])]

RAdd(a, b) == IF a.d = 0 \/ b.d = 0 THEN NaN ELSE Rat(a.n * b.d + b.n * a.d, a.d * b.d)

RSub(a, b) == IF a.d = 0 \/ b.d = 0 THEN NaN ELSE Rat(a.n * b.d - b.n * a.d, a.d * b.d)

RMul(a, b) == IF a.d = 0 \/ b.d = 0 THEN NaN ELSE Rat(a.n * b.n, a.d * b.d)

RDiv(a, b) == IF a.d = 0 \/ b.d = 0 THEN NaN ELSE Rat(a.n * b.d, a.d * b.n)

\* Comparisons with NaN are false, as in IEEE arithmetic.
RLt(a, b) == a.d # 0 /\ b.d # 0 /\ a.n * b.d < b.n * a.d

RGt(a, b) == RLt(b, a)

RGe(a, b) == a.d # 0 /\ b.d # 0 /\ a.n * b.d >= b.n * a.d

REq(a, b) == a.d # 0 /\ b.d # 0 /\ a.n * b.d = b.n * a.d

\* ------------------------------------------------------------------------
\* numpy.interp (imported as scipy.interp): piecewise linear interpolation
\* of the points (xp, fp), evaluated at every element of x. numpy does not
\* check that xp is increasing.
\* ------------------------------------------------------------------------
\* The index (0-based, -1 and len for out of range) numpy's search returns.
RECURSIVE linear_search(_, _, _)
linear_search(key, arr, i) ==
    IF i < Len(arr) /\ RGe(key, arr[i + 1])
    THEN linear_search(key, arr, i + 1)
    ELSE i - 1

binary_search_with_guess(key, arr) ==
    IF RGt(key, arr[Len(arr)]) THEN Len(arr)
    ELSE IF RLt(key, arr[1]) THEN -1
    ELSE linear_search(key, arr, 1)

interp_at(x_val, xp, fp) ==
    LET j == binary_search_with_guess(x_val, xp)
    IN  IF j = -1 THEN fp[1]
        ELSE IF j = Len(xp) THEN fp[Len(fp)]
        ELSE IF j = Len(xp) - 1 THEN fp[j + 1]
        ELSE IF REq(xp[j + 1], x_val) THEN fp[j + 1]
        ELSE LET slope == RDiv(RSub(fp[j + 2], fp[j + 1]),
                               RSub(xp[j + 2], xp[j + 1]))
             IN  RAdd(RMul(slope, RSub(x_val, xp[j + 1])), fp[j + 1])

interp(x, xp, fp) ==
    IF Len(xp) = 0 \/ Len(xp) # Len(fp) THEN Err("ValueError")
    ELSE Ok([i \in 1..Len(x) |-> interp_at(x[i], xp, fp)])

\* ------------------------------------------------------------------------
\* normalize_space
\* ------------------------------------------------------------------------
normalize_space(array, start, end) ==
    IF Len(array) = 0 THEN Err("IndexError")
    ELSE LET old_delta == array[Len(array)] - array[1]
             new_delta == end - start
             old_range == <<R(array[1] - old_delta),
                            R(array[Len(array)] + old_delta)>>
             new_range == <<R(start - new_delta), R(end + new_delta)>>
         IN  interp(RSeq(array), old_range, new_range)

InitNormalize ==
    /\ pc = "call"
    /\ \E n \in 0..MaxLen :
          args \in [array : [1..n -> -MaxCoord..MaxCoord], start : 0..1, end : 0..1]
    /\ res = None

CallNormalizeSpace ==
    /\ pc = "call"
    /\ res' = [fn |-> "normalize_space"] @@
              normalize_space(args.array, args.start, args.end)
    /\ pc' = "done"
    /\ UNCHANGED args

NextNormalize == CallNormalizeSpace

SpecNormalize == InitNormalize /\ [][NextNormalize]_vars

OldDelta(a) == a.array[Len(a.array)] - a.array[1]

\* C4 (as claimed): whenever the old span is non-zero, of either sign, the
\* first element is mapped to start and the last element to end.
C4_EndpointsMapped ==
    (pc = "done" /\ Len(args.array) >= 2 /\ OldDelta(args) # 0) =>
        /\ res.st = "ok"
        /\ res.val[1] = R(args.start)
        /\ res.val[Len(res.val)] = R(args.end)

\* C4 restricted to the case the code handles: a positive old span.
C4_IncreasingEndpointsMapped ==
    (pc = "done" /\ Len(args.array) >= 2 /\ OldDelta(args) > 0) =>
        /\ res.st = "ok"
        /\ res.val[1] = R(args.start)
        /\ res.val[Len(res.val)] = R(args.end)

\* C10 (as claimed): every sequence with fewer than 2 elements ends in an
\* error.
C10_ShortInputFails ==
    (pc = "done" /\ Len(args.array) < 2) => res.st = "error"

\* What the code does on short input: the empty sequence ends in an error; a
\* single-element sequence does not, normalize_space returns a one-element
\* sequence holding end + (end - start).
C10_OnlyEmptyFails ==
    /\ (pc = "done" /\ Len(args.array) = 0) => res.st = "error"
    /\ (pc = "done" /\ Len(args.array) = 1) =>
          /\ res.st = "ok"
          /\ res.val = <<R(args.end + (args.end - args.start))>>

\* ------------------------------------------------------------------------
\* uniform_time
\* (called with desired_interval >= 1 and max_duration >= desired_interval)
\* ------------------------------------------------------------------------
\* numpy.arange(start, stop, step) on integers, step > 0:
\* start, start + step, ... below stop.
arange(start, stop, step) ==
    LET n == IF stop > start THEN (stop - start + step - 1) \div step ELSE 0
    IN  [i \in 1..n |-> start + (i - 1) * step]

\* [v] * k in Python: k copies of v, none when k <= 0.
repeat(v, k) == [i \in 1..(IF k > 0 THEN k ELSE 0) |-> v]

uniform_time(coordinates, timepoints, desired_interval, max_duration) ==
    IF Len(timepoints) = 0 THEN Err("IndexError")
    ELSE
    LET regular_timepoints ==
            arange(0, timepoints[Len(timepoints)] + 1, desired_interval)
        regular_coordinates ==
            interp(RSeq(regular_timepoints), RSeq(timepoints), RSeq(coordinates))
        required_length == max_duration \div desired_interval
    IN  IF regular_coordinates.st # "ok" THEN regular_coordinates
        ELSE IF Len(regular_coordinates.val) = 0 THEN Err("IndexError")
        ELSE LET last == regular_coordinates.val[Len(regular_coordinates.val)]
                 extra_values ==
                    repeat(last, required_length - Len(regular_coordinates.val))
             IN  Ok(regular_coordinates.val \o extra_values)

StrictlyIncreasing(t) == \A i \in 1..(Len(t) - 1) : t[i] < t[i + 1]

InitUniformTime ==
    /\ pc = "call"
    /\ \E n \in 1..MaxLen :
          \E t \in [1..n -> 0..MaxTime], c \in [1..n -> 0..MaxCoord],
             iv \in 1..MaxInterval, md \in 1..MaxDuration :
                /\ md >= iv
                /\ t[1] = 0
                /\ StrictlyIncreasing(t)
                /\ args = [coordinates |-> c, timepoints |-> t,
                           desired_interval |-> iv, max_duration |-> md]
    /\ res = None

CallUniformTime ==
    /\ pc = "call"
    /\ res' = [fn |-> "uniform_time"] @@
              uniform_time(args.coordinates, args.timepoints,
                           args.desired_interval, args.max_duration)
    /\ pc' = "done"
    /\ UNCHANGED args

NextUniformTime == CallUniformTime

SpecUniformTime == InitUniformTime /\ [][NextUniformTime]_vars

LastTime(a) == a.timepoints[Len(a.timepoints)]

\* C1 (as claimed): when the recording starts at 0, is strictly increasing
\* and ends at or before max_duration, the returned sequence has exactly
\* floor(max_duration / desired_interval) elements.
C1_FixedLength ==
    (pc = "done" /\ LastTime(args) <= args.max_duration) =>
        /\ res.st = "ok"
        /\ Len(res.val) = args.max_duration \div args.desired_interval

\* C2 (as claimed): when the recording ends after max_duration, uniform_time
\* ends in an error and returns no sequence.
C2_TooLongFails ==
    (pc = "done" /\ LastTime(args) > args.max_duration) => res.st = "error"

\* Number of points of the interpolated grid 0, interval, 2*interval, ...
\* up to timepoints[-1].
GridLength(a) == LastTime(a) \div a.desired_interval + 1

\* C11 (as claimed): every element appended as padding, i.e. every position
\* past the interpolated grid, equals the last observed coordinate
\* coordinates[-1], also when timepoints[-1] is not a multiple of
\* desired_interval.
C11_PaddingIsLastCoordinate ==
    (pc = "done" /\ res.st = "ok") =>
        \A i \in (GridLength(args) + 1)..Len(res.val) :
            res.val[i] = R(args.coordinates[Len(args.coordinates)])

\* What the code does: the padding repeats the last interpolated value, the
\* one at the last grid point; it is coordinates[-1] when timepoints[-1] is
\* a multiple of desired_interval.
C11_PaddingIsLastGridValue ==
    (pc = "done" /\ res.st = "ok") =>
        /\ \A i \in (GridLength(args) + 1)..Len(res.val) :
              res.val[i] = res.val[GridLength(args)]
        /\ (LastTime(args) % args.desired_interval = 0) =>
              res.val[GridLength(args)] = R(args.coordinates[Len(args.coordinates)])

\* ------------------------------------------------------------------------
\* auc / auc2
\* ------------------------------------------------------------------------
\* The loop shared by auc and auc2: j starts at the last index and follows i;
\* each step adds x[i]*y[j] - y[i]*x[j].
RECURSIVE shoelace_sum(_, _, _, _)
shoelace_sum(x, y, i, j) ==
    IF i > Len(x) THEN 0
    ELSE LET x1y2 == y[i] * x[j]
             x2y1 == x[i] * y[j]
             area == x2y1 - x1y2
         IN  area + shoelace_sum(x, y, i + 1, i)

auc(x, y) == Ok(Rat(shoelace_sum(x, y, 1, Len(x)), 2))

auc2(x, y) ==
    IF Len(x) = 0 \/ Len(y) = 0 THEN Err("IndexError")
    ELSE LET xa == Append(x, x[Len(x)])
             ya == Append(y, y[1])
             triangle == Rat(Abs(xa[Len(xa)] - xa[1]) * Abs(ya[Len(ya)] * ya[1]), 2)
         IN  Ok(RSub(R(shoelace_sum(xa, ya, 1, Len(xa))), triangle))

\* Paths: x and y of equal length n, coordinates in S.
Paths(S, n) == [x : [1..n -> S], y : [1..n -> S]]

InitAuc ==
    /\ pc = "call"
    /\ \E n \in 0..MaxLen : args \in Paths(0..MaxCoord, n)
    /\ res = [auc |-> None, auc2 |-> None]

CallAuc ==
    /\ pc = "call"
    /\ res.auc = None
    /\ res' = [res EXCEPT !.auc = auc(args.x, args.y)]
    /\ pc' = IF res.auc2 = None THEN "call" ELSE "done"
    /\ UNCHANGED args

CallAuc2 ==
    /\ pc = "call"
    /\ res.auc2 = None
    /\ res' = [res EXCEPT !.auc2 = auc2(args.x, args.y)]
    /\ pc' = IF res.auc = None THEN "call" ELSE "done"
    /\ UNCHANGED args

NextAuc == CallAuc \/ CallAuc2

SpecAuc == InitAuc /\ [][NextAuc]_vars

\* s is linear in its index.
IsLinear(s) == \A i \in 1..(Len(s) - 2) : s[i + 1] - s[i] = s[i + 2] - s[i + 1]

StraightLine(a) == Len(a.x) >= 2 /\ IsLinear(a.x) /\ IsLinear(a.y)

\* C6 (as claimed): on a straight-line path, x and y both linear in the
\* index, auc and auc2 both return 0.
C6_StraightLineZero ==
    (pc = "done" /\ StraightLine(args)) =>
        /\ res.auc = Ok(R(0))
        /\ res.auc2 = Ok(R(0))

\* The half of C6 that the code satisfies: auc of a straight line is 0.
C6_AucStraightLineZero ==
    (res.auc # None /\ StraightLine(args)) => res.auc = Ok(R(0))

\* ------------------------------------------------------------------------
\* max_deviation / rotate
\* ------------------------------------------------------------------------
\* An angle is carried as [c, s, h]: its cosine is c/h and its sine s/h, with
\* h = sqrt(c^2 + s^2) > 0. math.atan(xe/ye) lies in (-pi/2, pi/2), so its
\* cosine is |ye|/h and its sine sgn(ye)*xe/h, h = sqrt(xe^2 + ye^2).
atan_ratio(xe, ye) == [c |-> Abs(ye), s |-> Sgn(ye) * xe]

\* rotate returns the rotated point multiplied by h.
rotate_clockwise(x, y, rad) == <<rad.c * x + rad.s * y, rad.c * y - rad.s * x>>

rotate(x, y, rad) == <<rad.c * x - rad.s * y, rad.s * x + rad.c * y>>

Min(S) == CHOOSE m \in S : \A k \in S : m <= k

Max(S) == CHOOSE m \in S : \A k \in S : m >= k

\* The value returned is the deviation multiplied by h = sqrt(xe^2 + ye^2).
max_deviation(x, y) ==
    IF Len(x) = 0 \/ Len(y) = 0 THEN Err("IndexError")
    ELSE IF y[Len(y)] = 0 THEN Err("ZeroDivisionError")
    ELSE LET radians_to_rotate == atan_ratio(x[Len(x)], y[Len(y)])
             rx == {rotate(x[i], y[i], radians_to_rotate)[1] : i \in 1..Len(x)}
             max_positive == Abs(Min(rx))
             max_negative == Abs(Max(rx))
         IN  IF max_positive > max_negative
             THEN Ok(max_positive)
             ELSE Ok((-1) * max_negative)

InitMaxDev ==
    /\ pc = "call"
    /\ \E n \in 0..MaxLen : args \in Paths(-MaxCoord..MaxCoord, n)
    /\ res = None

CallMaxDeviation ==
    /\ pc = "call"
    /\ res' = [fn |-> "max_deviation"] @@ max_deviation(args.x, args.y)
    /\ pc' = "done"
    /\ UNCHANGED args

NextMaxDev == CallMaxDeviation

SpecMaxDev == InitMaxDev /\ [][NextMaxDev]_vars

\* Position of sample i relative to the directed line from (0,0) to the
\* path's last point: positive to its left, negative to its right, 0 on it.
LeftOfChord(a, i) ==
    a.x[Len(a.x)] * a.y[i] - a.y[Len(a.y)] * a.x[i]

FromOriginUpward(a) ==
    /\ Len(a.x) >= 1
    /\ a.x[1] = 0 /\ a.y[1] = 0
    /\ a.y[Len(a.y)] > 0

\* C7: for a path from the origin with y[-1] > 0, max_deviation is positive
\* when the path leaves its chord only to one side (the side of the minimum
\* rotated x), negative when it leaves it only to the other side, and 0 when
\* every sample is on the chord.
C7_SignConvention ==
    (pc = "done" /\ FromOriginUpward(args)) =>
        LET side == {LeftOfChord(args, i) : i \in 1..Len(args.x)}
        IN  /\ res.st = "ok"
            /\ ((\A d \in side : d >= 0) /\ (\E d \in side : d > 0)) => res.val > 0
            /\ ((\A d \in side : d <= 0) /\ (\E d \in side : d < 0)) => res.val < 0
            /\ (\A d \in side : d = 0) => res.val = 0

\* Two of the claim's cases on the chord from (0,0) to (1,1): a path through
\* (0,1), left of it, and the straight path.
C7_Witness ==
    /\ pc = "done"
    /\ FromOriginUpward(args)
    /\ \/ /\ args.x = <<0, 0, 1>> /\ args.y = <<0, 1, 1>> /\ res.val > 0
       \/ /\ args.x = <<0, 1, 1>> /\ args.y = <<0, 0, 1>> /\ res.val < 0

\* ------------------------------------------------------------------------
\* rel_distance
\* ------------------------------------------------------------------------
\* Squared Euclidean distance; the code's d1, d2 are the square roots.
dist_sq(x, y, rx, ry) == (x - rx) * (x - rx) + (y - ry) * (y - ry)

\* An element of the result is [d1sq, d2sq] and stands for
\* sqrt(d1sq) / (sqrt(d1sq) + sqrt(d2sq)).
rel_distance(x_path, y_path) ==
    IF Len(x_path) = 0 THEN Err("IndexError")
    ELSE LET rx1 == x_path[1]
             ry1 == x_path[Len(x_path)]
             rx2 == (-1) * rx1
             ry2 == ry1
             r_d == [i \in 1..Len(x_path) |->
                        [d1sq |-> dist_sq(x_path[i], y_path[i], rx1, ry1),
                         d2sq |-> dist_sq(x_path[i], y_path[i], rx2, ry2)]]
         IN  IF \E i \in 1..Len(r_d) : r_d[i].d1sq = 0 /\ r_d[i].d2sq = 0
             THEN Err("ZeroDivisionError")
             ELSE Ok(r_d)

\* rd = 0 iff d1 = 0; rd = 1 iff d2 = 0 (d1 + d2 > 0 in a returned result).
IsZero(rd) == rd.d1sq = 0

IsOne(rd) == rd.d2sq = 0

InitRelDistance ==
    /\ pc = "call"
    /\ \E n \in 0..MaxLen : args \in Paths(-MaxCoord..MaxCoord, n)
    /\ res = None

CallRelDistance ==
    /\ pc = "call"
    /\ res' = [fn |-> "rel_distance"] @@ rel_distance(args.x, args.y)
    /\ pc' = "done"
    /\ UNCHANGED args

NextRelDistance == CallRelDistance

SpecRelDistance == InitRelDistance /\ [][NextRelDistance]_vars

\* C8 (as claimed): with x[0] # 0, the result has the length of the input,
\* is 0 exactly at samples equal to (x[0], y[-1]) and 1 exactly at samples
\* equal to (-x[0], y[-1]).
C8_ReferencePoints ==
    (pc = "done" /\ Len(args.x) >= 1 /\ args.x[1] # 0) =>
        LET n == Len(args.x)
        IN  /\ res.st = "ok"
            /\ Len(res.val) = n
            /\ \A i \in 1..n :
                /\ IsZero(res.val[i]) <=>
                      (args.x[i] = args.x[1] /\ args.y[i] = args.y[n])
                /\ IsOne(res.val[i]) <=>
                      (args.x[i] = -args.x[1] /\ args.y[i] = args.y[n])

\* ------------------------------------------------------------------------
\* IEEE-754 binary64 division, as np.arange uses it to size its result.
\* A positive double is [m |-> <<hi, lo>>, e |-> e] with value
\* (hi * 2^27 + lo) * 2^e and 2^52 <= hi * 2^27 + lo < 2^53; the 53-bit
\* significand is split in two so that every intermediate value fits the
\* model checker's integers.
\* ------------------------------------------------------------------------
Radix == 2^27

big_dbl(p) == <<2 * p[1] + (2 * p[2]) \div Radix, (2 * p[2]) % Radix>>

big_ge(p, q) == p[1] > q[1] \/ (p[1] = q[1] /\ p[2] >= q[2])

big_sub(p, q) ==
    IF p[2] >= q[2] THEN <<p[1] - q[1], p[2] - q[2]>>
    ELSE <<p[1] - q[1] - 1, p[2] + Radix - q[2]>>

big_half(p) == <<p[1] \div 2, p[2] \div 2 + (p[1] % 2) * (Radix \div 2)>>

big_inc(p) == IF p[2] + 1 < Radix THEN <<p[1], p[2] + 1>> ELSE <<p[1] + 1, 0>>

RECURSIVE bit_length(_)
bit_length(d) == IF d = 0 THEN 0 ELSE 1 + bit_length(d \div 2)

\* Conversion of an integer 1 <= d < 2^26 (exact).
float_from_int(d) ==
    LET k == bit_length(d)
    IN  [m |-> <<d * 2^(26 - k), 0>>, e |-> k - 53]

\* Binary long division: `bits` more steps from quotient quo and remainder
\* rem. Each step doubles the remainder, and the next quotient bit is 1 iff
\* the divisor fits. Returns <<quotient, remainder>>.
RECURSIVE div_bits(_, _, _, _)
div_bits(rem, den, quo, bits) ==
    LET rem2 == big_dbl(rem)
        quo2 == big_dbl(quo)
    IN  IF bits = 0 THEN <<quo, rem>>
        ELSE IF quo2[2] % 2 = 0 /\ big_ge(rem2, den)
             THEN div_bits(big_sub(rem2, den), den, big_inc(quo2), bits - 1)
             ELSE div_bits(rem2, den, quo2, bits - 1)

\* a / b rounded to nearest, ties to even.
float_div(a, b) ==
    LET small == ~big_ge(a.m, b.m)
        A == IF small THEN big_dbl(a.m) ELSE a.m
        ea == IF small THEN a.e - 1 ELSE a.e
        qr == div_bits(big_sub(A, b.m), b.m, <<0, 1>>, 53)
        Q == qr[1]
        round_bit == Q[2] % 2
        sticky == qr[2] # <<0, 0>>
        m0 == big_half(Q)
        m1 == IF round_bit = 1 /\ (sticky \/ m0[2] % 2 = 1)
              THEN big_inc(m0) ELSE m0
        e == ea - b.e - 52
    IN  IF m1[1] >= 2^26
        THEN [m |-> big_half(m1), e |-> e + 1]
        ELSE [m |-> m1, e |-> e]

\* ceil of a positive double below 2^26.
float_ceil(f) ==
    LET t == (-f.e) - 27
    IN  IF t >= 26 THEN 1
        ELSE (f.m[1] \div 2^t)
             + (IF f.m[1] % 2^t # 0 \/ f.m[2] # 0 THEN 1 ELSE 0)

\* len(np.arange(start, stop, step)) for integers start < stop and a double
\* step: ceil((stop - start) / step), the division done in binary64.
arange_length(start, stop, step) ==
    float_ceil(float_div(float_from_int(stop - start), step))

\* ------------------------------------------------------------------------
\* even_time_steps
\* ------------------------------------------------------------------------
SeqMin(s) == Min({s[i] : i \in 1..Len(s)})

SeqMax(s) == Max({s[i] : i \in 1..Len(s)})

\* The number of generated timestamps is computed as numpy computes it, in
\* binary64; the timestamps and the interpolated coordinates are carried as
\* exact rationals (numpy's values differ from them by rounding only).
even_time_steps(x, y, t, length) ==
    IF Len(t) = 0 THEN Err("ValueError")
    ELSE IF SeqMax(t) = SeqMin(t) THEN Err("ZeroDivisionError")
    ELSE LET lo == SeqMin(t)
             span == SeqMax(t) - lo
             step == float_div(float_from_int(span), float_from_int(length))
             n == arange_length(lo, SeqMax(t), step)
             nt == [i \in 1..n |-> Rat(lo * length + (i - 1) * span, length)]
             nx == interp(nt, RSeq(t), RSeq(x))
             ny == interp(nt, RSeq(t), RSeq(y))
         IN  IF nx.st # "ok" THEN nx
             ELSE IF ny.st # "ok" THEN ny
             ELSE Ok([nx |-> nx.val, ny |-> ny.val, nt |-> nt])

NonDecreasing(t) == \A i \in 1..(Len(t) - 1) : t[i] <= t[i + 1]

StampVals == {0, 1, MaxStamp}

InitEvenTime ==
    /\ pc = "call"
    /\ \E n \in 1..MaxLen :
          \E t \in [1..n -> StampVals], x \in [1..n -> 0..1], y \in [1..n -> 0..1],
             length \in 1..MaxSteps :
                /\ NonDecreasing(t)
                /\ args = [x |-> x, y |-> y, t |-> t, length |-> length]
    /\ res = None

CallEvenTimeSteps ==
    /\ pc = "call"
    /\ res' = [fn |-> "even_time_steps"] @@
              even_time_steps(args.x, args.y, args.t, args.length)
    /\ pc' = "done"
    /\ UNCHANGED args

NextEvenTime == CallEvenTimeSteps

SpecEvenTime == InitEvenTime /\ [][NextEvenTime]_vars

HasSpan(a) == SeqMax(a.t) > SeqMin(a.t)

\* C3 (as claimed): for non-decreasing t with max(t) > min(t) and N >= 1
\* steps, the three returned sequences have exactly N elements, every
\* generated timestamp lies in [min(t), max(t)), and the first point is
\* (x[0], y[0]) at timestamp min(t).
C3_TimeNormalize ==
    (pc = "done" /\ HasSpan(args)) =>
        /\ res.st = "ok"
        /\ Len(res.val.nx) = args.length
        /\ Len(res.val.ny) = args.length
        /\ Len(res.val.nt) = args.length
        /\ \A i \in 1..Len(res.val.nt) :
              /\ RGe(res.val.nt[i], R(SeqMin(args.t)))
              /\ RLt(res.val.nt[i], R(SeqMax(args.t)))
        /\ res.val.nt[1] = R(SeqMin(args.t))
        /\ res.val.nx[1] = R(args.x[1])
        /\ res.val.ny[1] = R(args.y[1])

\* The length part of C3 alone: it fails where the binary64 quotient
\* span / (span / N) rounds above N.
C3_LengthIsSteps ==
    (pc = "done" /\ HasSpan(args)) =>
        (res.st = "ok" /\ Len(res.val.nt) = args.length)

\* The first-point part of C3 alone: it fails where the smallest timestamp
\* is repeated, because the interpolation takes the last of the tied samples.
C3_FirstPointIsFirstSample ==
    (pc = "done" /\ HasSpan(args)) =>
        /\ res.st = "ok"
        /\ res.val.nx[1] = R(args.x[1])
        /\ res.val.ny[1] = R(args.y[1])

=============================================================================
